---- MODULE Spec2Model ----
(***************************************************************************)
(* create_solution.py: the bootstrap script of Mango.  It parses its       *)
(* options, provisions the third-party sources (getDependencies), runs     *)
(* cmake in ./build and then drives the make cascade (tryRunningMake).      *)
(*                                                                         *)
(* The script is sequential.  Each action below is the stretch of code     *)
(* from one blocking external call (a subprocess, or input()) up to the    *)
(* next one; the result of the external call is the action's input.        *)
(***************************************************************************)
EXTENDS Integers, Sequences, FiniteSets, TLC

VARIABLES
    pc,         \* position of the script: the external call it is about to make
    argv,       \* sys.argv[1:], a sequence of strings
    parsed,     \* what getopt makes of argv (line 92): [err, opts, args]; never changes
    cwd,        \* process working directory, as path components below the start directory
    fs,         \* the paths (directories and files) that exist, as component sequences
    buildFile,  \* content of dependencies/glad/CMakeLists.txt: the sequence of strings written
    calls,      \* external commands run so far, in order: [cmd, shell, cwd, status]
    out,        \* what the script itself printed, in order; each entry is the pieces of one line
    prompts,    \* number of input() prompts the operator has answered
    exit,       \* [how, code]: how the process ended and its exit status
    cmakeGen,   \* main: cmakeGen
    cmakeCmd,   \* main: cmakeCmd
    ret,        \* what the call of getDependencies() produced: "none", "True", "False", "raised"
    cwdAtCall,  \* working directory at the moment getDependencies() was called
    mk,         \* tryRunningMake: index of the loop variable in makes
    status,     \* tryRunningMake: status
    makeCmd,    \* tryRunningMake: makeCmd
    start,      \* the workspace as the run found it: [fs, buildFile]
    rootExisted, \* whether 'dependencies' existed when getDependencies() was called:
                \* "yes", "no", or "not called"
    cwdAtGen,   \* working directory when the generator step began (before line 129)
    helpText    \* main: output, the text captured from cmake -h (<<>> before that)

vars == <<pc, argv, parsed, cwd, fs, buildFile, calls, out, prompts, exit, cmakeGen, cmakeCmd,
          ret, cwdAtCall, mk, status, makeCmd, start, rootExisted, cwdAtGen, helpText>>

(***************************************************************************)
(* Bounds of the model.                                                    *)
(***************************************************************************)
\* longest command line explored
MaxArgs == 2

(***************************************************************************)
(* Strings.  TLC cannot take a string apart, so every string the option    *)
(* parser handles is listed with its characters; slicing and concatenation *)
(* are computed on the characters.                                         *)
(***************************************************************************)
Chars(s) ==
    CASE s = ""                        -> <<>>
      [] s = "-"                       -> <<"-">>
      [] s = "--"                      -> <<"-", "-">>
      [] s = "="                       -> <<"=">>
      [] s = "h"                       -> <<"h">>
      [] s = "G"                       -> <<"G">>
      [] s = "x"                       -> <<"x">>
      [] s = "-h"                      -> <<"-", "h">>
      [] s = "-G"                      -> <<"-", "G">>
      [] s = "-x"                      -> <<"-", "x">>
      [] s = "Gx"                      -> <<"G", "x">>
      [] s = "-Gx"                     -> <<"-", "G", "x">>
      [] s = "hG"                      -> <<"h", "G">>
      [] s = "-hG"                     -> <<"-", "h", "G">>
      [] s = "Ninja"                   -> <<"N", "i", "n", "j", "a">>
      [] s = "he"                      -> <<"h", "e">>
      [] s = "--he"                    -> <<"-", "-", "h", "e">>
      [] s = "help"                    -> <<"h", "e", "l", "p">>
      [] s = "--help"                  -> <<"-", "-", "h", "e", "l", "p">>
      [] s = "help=Ninja"              -> <<"h", "e", "l", "p", "=", "N", "i", "n", "j", "a">>
      [] s = "--help=Ninja"            -> <<"-", "-", "h", "e", "l", "p", "=", "N", "i", "n", "j", "a">>
      [] s = "cmake_generator"         -> <<"c", "m", "a", "k", "e", "_", "g", "e", "n", "e", "r", "a", "t", "o", "r">>
      [] s = "cmake_generator="        -> <<"c", "m", "a", "k", "e", "_", "g", "e", "n", "e", "r", "a", "t", "o", "r", "=">>
      [] s = "--cmake_generator"       -> <<"-", "-", "c", "m", "a", "k", "e", "_", "g", "e", "n", "e", "r", "a", "t", "o", "r">>
      [] s = "cmake_generator=Ninja"   -> <<"c", "m", "a", "k", "e", "_", "g", "e", "n", "e", "r", "a", "t", "o", "r", "=", "N", "i", "n", "j", "a">>
      [] s = "--cmake_generator=Ninja" -> <<"-", "-", "c", "m", "a", "k", "e", "_", "g", "e", "n", "e", "r", "a", "t", "o", "r", "=", "N", "i", "n", "j", "a">>
      [] s = "hG:"                     -> <<"h", "G", ":">>

\* every string the parser can meet
Strings ==
    {"", "-", "--", "=", "h", "G", "x", "-h", "-G", "-x", "Gx", "-Gx", "hG", "-hG", "Ninja",
     "he", "--he", "help", "--help", "help=Ninja", "--help=Ninja",
     "cmake_generator", "cmake_generator=", "--cmake_generator",
     "cmake_generator=Ninja", "--cmake_generator=Ninja", "hG:"}

\* the string with the given characters
Str(cs) == CHOOSE s \in Strings : Chars(s) = cs

\* a + b
Concat(a, b) == Str(Chars(a) \o Chars(b))

\* s[i:] with i counted from 0
From(s, i) == Str(SubSeq(Chars(s), i + 1, Len(Chars(s))))

\* s[:i]
Upto(s, i) == Str(SubSeq(Chars(s), 1, i))

\* s.startswith(p)
StartsWith(s, p) ==
    /\ Len(Chars(p)) <= Len(Chars(s))
    /\ SubSeq(Chars(s), 1, Len(Chars(p))) = Chars(p)

\* s.endswith(p)
EndsWith(s, p) ==
    /\ Len(Chars(p)) <= Len(Chars(s))
    /\ SubSeq(Chars(s), Len(Chars(s)) - Len(Chars(p)) + 1, Len(Chars(s))) = Chars(p)

\* s.index(c), counted from 0, or -1 when c does not occur (the ValueError case)
IndexOf(s, c) ==
    IF \E i \in 1..Len(Chars(s)) : Chars(s)[i] = c
    THEN (CHOOSE i \in 1..Len(Chars(s)) :
              /\ Chars(s)[i] = c
              /\ \A j \in 1..(i - 1) : Chars(s)[j] # c) - 1
    ELSE -1

(***************************************************************************)
(* getopt.getopt(argv, 'hG:', ['help', 'cmake_generator=']), as main calls *)
(* it.  A result is [err, opts, args]: err is TRUE when GetoptError is     *)
(* raised; opts is the list of (option, value) pairs.                      *)
(***************************************************************************)
shortopts == "hG:"
longopts == <<"help", "cmake_generator=">>

GetoptError == [err |-> TRUE, opts |-> <<>>, args |-> <<>>]

\* short_has_arg: "yes", "no", or "error" for an unrecognised letter
short_has_arg(opt) ==
    LET hits == {i \in 1..Len(Chars(shortopts)) :
                     Chars(shortopts)[i] = opt /\ opt # ":"}
    IN  IF hits = {} THEN "error"
        ELSE LET i == CHOOSE k \in hits : \A l \in hits : k <= l
             IN  IF i + 1 <= Len(Chars(shortopts)) /\ Chars(shortopts)[i + 1] = ":"
                 THEN "yes" ELSE "no"

\* do_shorts(opts, optstring, shortopts, args)
RECURSIVE do_shorts(_, _, _)
do_shorts(opts, optstring, args) ==
    IF optstring = "" THEN [err |-> FALSE, opts |-> opts, args |-> args]
    ELSE LET opt  == Chars(optstring)[1]
             rest == From(optstring, 1)
             has  == short_has_arg(opt)
         IN  IF has = "error" THEN GetoptError
             ELSE IF has = "yes"
             THEN IF rest = ""
                  THEN IF args = <<>> THEN GetoptError
                       ELSE [err |-> FALSE,
                             opts |-> Append(opts, [opt |-> Concat("-", opt), arg |-> Head(args)]),
                             args |-> Tail(args)]
                  ELSE [err |-> FALSE,
                        opts |-> Append(opts, [opt |-> Concat("-", opt), arg |-> rest]),
                        args |-> args]
             ELSE do_shorts(Append(opts, [opt |-> Concat("-", opt), arg |-> ""]), rest, args)

\* long_has_args(opt, longopts): [err, has_arg, opt]
long_has_args(opt) ==
    LET possibilities == {i \in 1..Len(longopts) : StartsWith(longopts[i], opt)}
    IN  IF possibilities = {} THEN [err |-> TRUE, has_arg |-> FALSE, opt |-> opt]
        ELSE IF \E i \in possibilities : longopts[i] = opt
        THEN [err |-> FALSE, has_arg |-> FALSE, opt |-> opt]
        ELSE IF \E i \in possibilities : Chars(longopts[i]) = Chars(opt) \o <<"=">>
        THEN [err |-> FALSE, has_arg |-> TRUE, opt |-> opt]
        ELSE IF Cardinality(possibilities) > 1
        THEN [err |-> TRUE, has_arg |-> FALSE, opt |-> opt]
        ELSE LET unique_match == longopts[CHOOSE i \in possibilities : TRUE]
             IN  IF EndsWith(unique_match, "=")
                 THEN [err |-> FALSE, has_arg |-> TRUE,
                       opt |-> Upto(unique_match, Len(Chars(unique_match)) - 1)]
                 ELSE [err |-> FALSE, has_arg |-> FALSE, opt |-> unique_match]

\* do_longs(opts, opt, longopts, args)
do_longs(opts, optin, args) ==
    LET i      == IndexOf(optin, "=")
        opt    == IF i = -1 THEN optin ELSE Upto(optin, i)
        given  == i # -1
        optarg == IF given THEN From(optin, i + 1) ELSE ""
        h      == long_has_args(opt)
    IN  IF h.err THEN GetoptError
        ELSE IF h.has_arg
        THEN IF ~given
             THEN IF args = <<>> THEN GetoptError
                  ELSE [err |-> FALSE,
                        opts |-> Append(opts, [opt |-> Concat("--", h.opt), arg |-> Head(args)]),
                        args |-> Tail(args)]
             ELSE [err |-> FALSE,
                   opts |-> Append(opts, [opt |-> Concat("--", h.opt), arg |-> optarg]),
                   args |-> args]
        ELSE IF given THEN GetoptError
        ELSE [err |-> FALSE,
              opts |-> Append(opts, [opt |-> Concat("--", h.opt), arg |-> ""]),
              args |-> args]

\* the while loop of getopt.getopt
RECURSIVE getopt_loop(_, _)
getopt_loop(opts, args) ==
    IF args # <<>> /\ StartsWith(Head(args), "-") /\ Head(args) # "-"
    THEN IF Head(args) = "--"
         THEN [err |-> FALSE, opts |-> opts, args |-> Tail(args)]
         ELSE LET r == IF StartsWith(Head(args), "--")
                       THEN do_longs(opts, From(Head(args), 2), Tail(args))
                       ELSE do_shorts(opts, From(Head(args), 1), Tail(args))
              IN  IF r.err THEN GetoptError ELSE getopt_loop(r.opts, r.args)
    ELSE [err |-> FALSE, opts |-> opts, args |-> args]

getopt(args) == getopt_loop(<<>>, args)


(***************************************************************************)
(* Paths and the file system.                                              *)
(***************************************************************************)
\* the components of the path literals the script uses
Split(p) ==
    CASE p = "dependencies"           -> <<"dependencies">>
      [] p = "glfw"                   -> <<"glfw">>
      [] p = "glad/gen"               -> <<"glad", "gen">>
      [] p = "../.."                  -> <<"..", "..">>
      [] p = "./glad/CMakeLists.txt"  -> <<".", "glad", "CMakeLists.txt">>
      [] p = "googletest"             -> <<"googletest">>
      [] p = "spdlog"                 -> <<"spdlog">>
      [] p = "build"                  -> <<"build">>
      [] p = ".."                     -> <<"..">>
      [] p = "../src"                 -> <<"..", "src">>
      [] p = "../include"             -> <<"..", "include">>

\* the path reached from directory base by the relative components rel
RECURSIVE Resolve(_, _)
Resolve(base, rel) ==
    IF rel = <<>> THEN base
    ELSE IF Head(rel) = "." THEN Resolve(base, Tail(rel))
    ELSE IF Head(rel) = ".." /\ base # <<>> /\ base[Len(base)] # ".."
         THEN Resolve(SubSeq(base, 1, Len(base) - 1), Tail(rel))
    ELSE Resolve(Append(base, Head(rel)), Tail(rel))

\* a path together with all the directories above it
WithParents(path) == {SubSeq(path, 1, n) : n \in 1..Len(path)}

\* os.path.exists(p), relative to the working directory wd
exists(wd, p) == Resolve(wd, Split(p)) \in fs

(***************************************************************************)
(* External processes.  The script sees only their exit status.            *)
(***************************************************************************)
\* exit statuses of git, the glad generator and cmake
ToolStatuses == {0, 1}
\* a probe through the shell: 0, a failed build (2), or command not found (127)
ProbeStatuses == {0, 2, 127}
\* the real build: the tool was found by the probe, so it runs and ends 0 or 2
BuildStatuses == {0, 2}

\* subprocess.check_call: returns 0, or raises CalledProcessError on any other status
check_call(st) ==
    IF st = 0 THEN [raised |-> FALSE, result |-> 0]
    ELSE [raised |-> TRUE, result |-> st]

\* subprocess.check_output: the captured text, or CalledProcessError on a non-zero status
check_output(st, text) ==
    IF st = 0 THEN [raised |-> FALSE, output |-> text]
    ELSE [raised |-> TRUE, output |-> <<>>]

\* subprocess.getstatusoutput: never raises on a non-zero status, it returns it
getstatusoutput(st) == st

\* one executed command, appended to the log
Ran(cmd, viaShell, st) ==
    Append(calls, [cmd |-> cmd, shell |-> viaShell, cwd |-> cwd, status |-> st])

Running == [how |-> "running", code |-> -1]
\* an exception nobody catches: traceback, interpreter exit status 1
Uncaught == [how |-> "uncaught", code |-> 1]
\* os._exit with the status dropped: every os._exit ends the process with 0
os_exit_zero(n) == [how |-> "os._exit", code |-> 0]

\* os._exit(n)
os_exit(n) == [how |-> "os._exit", code |-> n]
\* main returns and the interpreter ends normally
Returned == [how |-> "return", code |-> 0]

Prompt == <<"PRESS ENTER TO CONTINUE.">>

(***************************************************************************)
(* The command lines and the fixed file content.                           *)
(***************************************************************************)
gitCmd(repository, folder) == <<"git", "clone", repository, folder>>
GlfwCmd == gitCmd("https://github.com/glfw/glfw.git", "glfw")
GladCmd == gitCmd("https://github.com/Dav1dde/glad.git", "glad/gen")
GoogletestCmd == gitCmd("https://github.com/google/googletest.git", "googletest")
SpdlogCmd == gitCmd("https://github.com/gabime/spdlog.git", "spdlog")
gladGenCmd ==
    <<"python", "-m", "glad", "--generator=c", "--spec=gl", "--out-path=..", "--reproducible">>
cmakeHelp == <<"cmake", "-h">>
makes == <<"make", "nmake", "mingw32-make", "ninja">>

CMakeListsContent ==
    <<"project(glad)\r\n",
      "add_library(glad src/glad.c include/glad/glad.h include/KHR/khrplatform.h)\r\n",
      "target_include_directories(glad PUBLIC include)\r\n">>

\* the provisioning commands in the order getDependencies runs them
ProvisionCmds == <<GlfwCmd, GladCmd, gladGenCmd, GoogletestCmd, SpdlogCmd>>


(***************************************************************************)
(* The inputs: command lines, workspaces, and the help text of cmake.      *)
(***************************************************************************)
ArgStrings ==
    {"-h", "-G", "-x", "-hG", "-Gx", "--help", "--he", "--cmake_generator",
     "--cmake_generator=Ninja", "--help=Ninja", "--", "-", "", "Ninja"}

Argvs == UNION {[1..n -> ArgStrings] : n \in 0..MaxArgs}

Deps == <<"dependencies">>
FullDeps ==
    {Deps, Deps \o <<"glfw">>, Deps \o <<"glad">>, Deps \o <<"glad", "gen">>,
     Deps \o <<"glad", "src">>, Deps \o <<"glad", "include">>,
     Deps \o <<"glad", "CMakeLists.txt">>, Deps \o <<"googletest">>, Deps \o <<"spdlog">>}

\* the dependency tree before the run: absent, empty, partial (a run that failed
\* after the first clone), or complete
DepsTrees == {{}, {Deps}, {Deps, Deps \o <<"glfw">>}, FullDeps}
\* the build directory before the run: absent or left by an earlier run
BuildTrees == {{}, {<<"build">>}}

\* cmake -h output as pieces of text; "\n" ends a row
HelpTexts ==
    {<<"Usage", "\n", "Options", "\n", "  -G <generator-name>", "\n">>,
     <<"Options", "\n", "Generators", "\n", "Ninja", "\n", "Visual Studio 16 ", "[arch]",
       "\n", "  Optional ", "[arch]", " may be Win64", "\n", "Xcode">>,
     <<"Generators", " are:", "\n", "Xcode", "\n", "Generators", "\n", "OPTION">>}

(***************************************************************************)
(* The generator listing (main, the -h branch).                            *)
(***************************************************************************)
\* output.split('Generators', 1)[1]: what follows the first marker; the result
\* says whether the marker was there at all (IndexError otherwise)
AfterMarker(text) ==
    IF \E i \in 1..Len(text) : text[i] = "Generators"
    THEN LET i == CHOOSE k \in 1..Len(text) :
                      /\ text[k] = "Generators"
                      /\ \A j \in 1..(k - 1) : text[j] # "Generators"
         IN  [found |-> TRUE, rest |-> SubSeq(text, i + 1, Len(text))]
    ELSE [found |-> FALSE, rest |-> <<>>]

\* generators.split('\n'): the rows, each the pieces between two line ends
RECURSIVE SplitRows(_, _)
SplitRows(text, row) ==
    IF text = <<>> THEN <<row>>
    ELSE IF Head(text) = "\n" THEN <<row>> \o SplitRows(Tail(text), <<>>)
    ELSE SplitRows(Tail(text), Append(row, Head(text)))

\* row.replace('[arch]', '      ')
BlankArch(row) == [i \in 1..Len(row) |-> IF row[i] = "[arch]" THEN "      " ELSE row[i]]

\* 'option' in row.lower(), piece by piece
\* 'option' in row, without lower(): none of the pieces spells it in lower case
HasOptionCaseSensitive(row) == \E i \in 1..Len(row) : row[i] \in {"option"}

OptionPieces == {"Options", "OPTION", "  Optional "}
HasOption(row) == \E i \in 1..Len(row) : row[i] \in OptionPieces

\* the rows the loop prints, in order
RECURSIVE PrintRows(_)
PrintRows(rows) ==
    IF rows = <<>> THEN <<>>
    ELSE LET row == BlankArch(Head(rows))
         IN  (IF ~HasOption(row) THEN <<row>> ELSE <<>>) \o PrintRows(Tail(rows))

(***************************************************************************)
(* main: option handling (lines 89-116).                                   *)
(***************************************************************************)
\* the option loop keeping the first generator value instead of the last
RECURSIVE OptLoopFirstWins(_, _)
OptLoopFirstWins(opts, gen) ==
    IF opts = <<>> THEN [help |-> FALSE, cmakeGen |-> gen]
    ELSE IF Head(opts).opt \in {"-h", "--help"} THEN [help |-> TRUE, cmakeGen |-> gen]
    ELSE IF Head(opts).opt \in {"-G", "--cmake_generator"} /\ gen = ""
         THEN OptLoopFirstWins(Tail(opts), Head(opts).arg)
    ELSE OptLoopFirstWins(Tail(opts), gen)

\* the for loop over opts: stops at the first help option (it ends in os._exit),
\* otherwise every -G/--cmake_generator assigns cmakeGen
RECURSIVE OptLoop(_, _)
OptLoop(opts, gen) ==
    IF opts = <<>> THEN [help |-> FALSE, cmakeGen |-> gen]
    ELSE IF Head(opts).opt \in {"-h", "--help"} THEN [help |-> TRUE, cmakeGen |-> gen]
    ELSE IF Head(opts).opt \in {"-G", "--cmake_generator"}
         THEN OptLoop(Tail(opts), Head(opts).arg)
    ELSE OptLoop(Tail(opts), gen)

\* lines 111-116
MakeCMakeCmd(gen) == IF gen = "" THEN <<"cmake", "..">> ELSE <<"cmake", "-G", gen, "..">>

GeneratorMsg(gen) ==
    IF gen = "" THEN <<"The platform default cmake generator is used. This may fail.">>
    ELSE <<"The generator for cmake is ", gen>>

Usage == <<"usage: create_solution.py -G <cmake_generator>">>

Init ==
    /\ pc = "main"
    /\ argv \in Argvs
    /\ parsed = getopt(argv)
    /\ cwd = <<>>
    /\ \E d \in DepsTrees, b \in BuildTrees :
           /\ fs = d \cup b
           /\ buildFile = IF d = FullDeps THEN CMakeListsContent ELSE <<>>
    /\ start = [fs |-> fs, buildFile |-> buildFile]
    /\ rootExisted = "not called"
    /\ cwdAtGen = <<>>
    /\ helpText = <<>>
    /\ calls = <<>>
    /\ out = <<>>
    /\ prompts = 0
    /\ exit = Running
    /\ cmakeGen = ""
    /\ cmakeCmd = <<>>
    /\ ret = "none"
    /\ cwdAtCall = <<>>
    /\ mk = 0
    /\ status = 0
    /\ makeCmd = <<>>

\* main with GetoptError swallowed: a rejected command line is treated as an empty one
MainIgnoresGetoptError ==
    /\ pc = "main"
    /\ LET g == getopt(argv)
           l == OptLoop(g.opts, "")
       IN  IF l.help
           THEN /\ out' = Append(out, Usage)
                /\ cmakeGen' = l.cmakeGen
                /\ pc' = "cmakeHelp"
                /\ UNCHANGED <<exit, cmakeCmd>>
           ELSE /\ cmakeGen' = l.cmakeGen
                /\ cmakeCmd' = MakeCMakeCmd(l.cmakeGen)
                /\ out' = out \o <<GeneratorMsg(l.cmakeGen), <<"Loading dependencies.">> >>
                /\ pc' = "getDependencies"
                /\ UNCHANGED exit
    /\ UNCHANGED <<argv, parsed, cwdAtGen, helpText, start, rootExisted, cwd, fs, buildFile, calls,
                   prompts, ret, cwdAtCall, mk, status, makeCmd>>

\* main, lines 89-120: parse the options, pick the cmake command line
Main ==
    /\ pc = "main"
    /\ LET g == getopt(argv)
           l == OptLoop(g.opts, "")
       IN  IF g.err
           THEN /\ out' = out \o << <<"get help with: create_solution.py -h">>, Usage >>
                /\ exit' = os_exit(1)
                /\ pc' = "done"
                /\ UNCHANGED <<cmakeGen, cmakeCmd>>
           ELSE IF l.help
           THEN /\ out' = Append(out, Usage)
                /\ cmakeGen' = l.cmakeGen
                /\ pc' = "cmakeHelp"
                /\ UNCHANGED <<exit, cmakeCmd>>
           ELSE /\ cmakeGen' = l.cmakeGen
                /\ cmakeCmd' = MakeCMakeCmd(l.cmakeGen)
                /\ out' = out \o <<GeneratorMsg(l.cmakeGen), <<"Loading dependencies.">> >>
                /\ pc' = "getDependencies"
                /\ UNCHANGED exit
    /\ UNCHANGED <<argv, parsed, cwdAtGen, helpText, start, rootExisted, cwd, fs, buildFile, calls,
                   prompts, ret, cwdAtCall, mk, status, makeCmd>>

\* main, lines 100-107: cmake -h, then the filtered generator list, then os._exit(0)
CMakeHelp ==
    /\ pc = "cmakeHelp"
    /\ \E st \in ToolStatuses, text \in HelpTexts :
           /\ calls' = Ran(cmakeHelp, FALSE, st)
           /\ helpText' = check_output(st, text).output
           /\ LET r == check_output(st, text)
              IN  IF r.raised \/ ~AfterMarker(r.output).found
                  THEN /\ exit' = Uncaught
                       /\ out' = out
                  ELSE /\ exit' = os_exit(0)
                       /\ out' = out \o PrintRows(SplitRows(AfterMarker(r.output).rest, <<>>))
    /\ pc' = "done"
    /\ UNCHANGED <<argv, parsed, cwdAtGen, start, rootExisted, cwd, fs, buildFile, prompts, cmakeGen,
                   cmakeCmd, ret, cwdAtCall, mk, status, makeCmd>>


(***************************************************************************)
(* getDependencies (lines 3-59).                                           *)
(***************************************************************************)
\* what a git clone into folder leaves behind: the folder (with the directories
\* above it) when it succeeds; when it fails, the folder may or may not remain
Cloned(folder, st, partial) ==
    IF st = 0 \/ partial THEN fs \cup WithParents(Resolve(cwd, Split(folder))) ELSE fs

\* an exception leaves getDependencies and main: nothing catches it
Raise ==
    /\ ret' = "raised"
    /\ exit' = Uncaught
    /\ pc' = "done"

\* return False (lines 15, 23, 30, 47, 56)
ReturnFalse ==
    /\ ret' = "False"
    /\ pc' = "depsReturned"
    /\ UNCHANGED exit

\* getDependencies without the early return of lines 4-5
GetDependenciesNoCheck ==
    /\ pc = "getDependencies"
    /\ cwdAtCall' = cwd
    /\ rootExisted' = IF exists(cwd, "dependencies") THEN "yes" ELSE "no"
    /\ fs' = fs \cup {Resolve(cwd, Split("dependencies"))}
    /\ cwd' = Resolve(cwd, Split("dependencies"))
    /\ pc' = "glfw"
    /\ UNCHANGED <<argv, parsed, cwdAtGen, helpText, start, buildFile, calls, out, prompts, exit,
                   cmakeGen, cmakeCmd, mk, status, makeCmd, ret>>

\* lines 3-7: the existence check, mkdir and chdir
GetDependencies ==
    /\ pc = "getDependencies"
    /\ cwdAtCall' = cwd
    /\ rootExisted' = IF exists(cwd, "dependencies") THEN "yes" ELSE "no"
    /\ IF exists(cwd, "dependencies")
       THEN /\ ret' = "True"
            /\ pc' = "depsReturned"
            /\ UNCHANGED <<fs, cwd>>
       ELSE /\ fs' = fs \cup {Resolve(cwd, Split("dependencies"))}
            /\ cwd' = Resolve(cwd, Split("dependencies"))
            /\ pc' = "glfw"
            /\ UNCHANGED ret
    /\ UNCHANGED <<argv, parsed, cwdAtGen, helpText, start, buildFile, calls, out, prompts, exit,
                   cmakeGen, cmakeCmd, mk, status, makeCmd>>

\* lines 9-15: clone glfw
CloneGlfw ==
    /\ pc = "glfw"
    /\ \E st \in ToolStatuses, partial \in BOOLEAN :
           /\ calls' = Ran(GlfwCmd, FALSE, st)
           /\ fs' = Cloned("glfw", st, partial)
           /\ LET r == check_call(st)
              IN  IF r.raised THEN Raise
                  ELSE IF r.result # 0 THEN ReturnFalse
                  ELSE pc' = "glad" /\ UNCHANGED <<ret, exit>>
    /\ UNCHANGED <<argv, parsed, cwdAtGen, helpText, start, rootExisted, cwd, buildFile, out, prompts,
                   cmakeGen, cmakeCmd, cwdAtCall, mk, status, makeCmd>>

\* the glad clone with its status ignored: line 22 never returns, nothing raises
CloneGladIgnoresStatus ==
    /\ pc = "glad"
    /\ \E st \in ToolStatuses, partial \in BOOLEAN :
           /\ calls' = Ran(GladCmd, FALSE, st)
           /\ fs' = Cloned("glad/gen", st, partial)
    /\ cwd' = Resolve(cwd, Split("glad/gen"))
    /\ pc' = "gladGen"
    /\ UNCHANGED <<argv, parsed, cwdAtGen, helpText, start, rootExisted, buildFile, out, prompts,
                   cmakeGen, cmakeCmd, cwdAtCall, mk, status, makeCmd, ret, exit>>

\* lines 17-25: clone glad into glad/gen, then chdir into it
CloneGlad ==
    /\ pc = "glad"
    /\ \E st \in ToolStatuses, partial \in BOOLEAN :
           /\ calls' = Ran(GladCmd, FALSE, st)
           /\ fs' = Cloned("glad/gen", st, partial)
           /\ LET r == check_call(st)
              IN  IF r.raised THEN Raise /\ UNCHANGED cwd
                  ELSE IF r.result # 0 THEN ReturnFalse /\ UNCHANGED cwd
                  ELSE /\ cwd' = Resolve(cwd, Split("glad/gen"))
                       /\ pc' = "gladGen"
                       /\ UNCHANGED <<ret, exit>>
    /\ UNCHANGED <<argv, parsed, cwdAtGen, helpText, start, rootExisted, buildFile, out, prompts,
                   cmakeGen, cmakeCmd, cwdAtCall, mk, status, makeCmd>>

\* the glad generator run with its status ignored: the write follows whatever it was
GladGenIgnoresStatus ==
    /\ pc = "gladGen"
    /\ \E st \in ToolStatuses, partial \in BOOLEAN :
           /\ calls' = Ran(gladGenCmd, FALSE, st)
           /\ fs' = IF st = 0 \/ partial
                    THEN fs \cup {Resolve(cwd, Split("../src")), Resolve(cwd, Split("../include"))}
                    ELSE fs
    /\ cwd' = Resolve(cwd, Split("../.."))
    /\ pc' = "write"
    /\ UNCHANGED <<argv, parsed, cwdAtGen, helpText, start, rootExisted, buildFile, out, prompts,
                   cmakeGen, cmakeCmd, cwdAtCall, mk, status, makeCmd, ret, exit>>

\* lines 27-32: run the glad generator in glad/gen (it writes to --out-path=..),
\* then chdir back to dependencies
GladGen ==
    /\ pc = "gladGen"
    /\ \E st \in ToolStatuses, partial \in BOOLEAN :
           /\ calls' = Ran(gladGenCmd, FALSE, st)
           /\ fs' = IF st = 0 \/ partial
                    THEN fs \cup {Resolve(cwd, Split("../src")), Resolve(cwd, Split("../include"))}
                    ELSE fs
           /\ LET r == check_call(st)
              IN  IF r.raised THEN Raise /\ UNCHANGED cwd
                  ELSE IF r.result # 0 THEN ReturnFalse /\ UNCHANGED cwd
                  ELSE /\ cwd' = Resolve(cwd, Split("../.."))
                       /\ pc' = "write"
                       /\ UNCHANGED <<ret, exit>>
    /\ UNCHANGED <<argv, parsed, cwdAtGen, helpText, start, rootExisted, buildFile, out, prompts,
                   cmakeGen, cmakeCmd, cwdAtCall, mk, status, makeCmd>>

\* lines 34-38 left out: no build file is written
WriteBuildFileSkipped ==
    /\ pc = "write"
    /\ pc' = "googletest"
    /\ UNCHANGED <<argv, parsed, cwdAtGen, helpText, start, rootExisted, cwd, fs, buildFile, calls, out,
                   prompts, exit, cmakeGen, cmakeCmd, ret, cwdAtCall, mk, status, makeCmd>>

\* lines 34-38: write glad/CMakeLists.txt ('w+' truncates, then three writes)
WriteBuildFile ==
    /\ pc = "write"
    /\ fs' = fs \cup {Resolve(cwd, Split("./glad/CMakeLists.txt"))}
    /\ buildFile' = CMakeListsContent
    /\ pc' = "googletest"
    /\ UNCHANGED <<argv, parsed, cwdAtGen, helpText, start, rootExisted, cwd, calls, out, prompts,
                   exit, cmakeGen, cmakeCmd, ret, cwdAtCall, mk, status, makeCmd>>

\* lines 40-47: clone googletest
CloneGoogletest ==
    /\ pc = "googletest"
    /\ \E st \in ToolStatuses, partial \in BOOLEAN :
           /\ calls' = Ran(GoogletestCmd, FALSE, st)
           /\ fs' = Cloned("googletest", st, partial)
           /\ LET r == check_call(st)
              IN  IF r.raised THEN Raise
                  ELSE IF r.result # 0 THEN ReturnFalse
                  ELSE pc' = "spdlog" /\ UNCHANGED <<ret, exit>>
    /\ UNCHANGED <<argv, parsed, cwdAtGen, helpText, start, rootExisted, cwd, buildFile, out, prompts,
                   cmakeGen, cmakeCmd, cwdAtCall, mk, status, makeCmd>>

\* lines 49-59: clone spdlog, chdir back, return True
CloneSpdlog ==
    /\ pc = "spdlog"
    /\ \E st \in ToolStatuses, partial \in BOOLEAN :
           /\ calls' = Ran(SpdlogCmd, FALSE, st)
           /\ fs' = Cloned("spdlog", st, partial)
           /\ LET r == check_call(st)
              IN  IF r.raised THEN Raise /\ UNCHANGED cwd
                  ELSE IF r.result # 0 THEN ReturnFalse /\ UNCHANGED cwd
                  ELSE /\ cwd' = Resolve(cwd, Split(".."))
                       /\ ret' = "True"
                       /\ pc' = "depsReturned"
                       /\ UNCHANGED exit
    /\ UNCHANGED <<argv, parsed, cwdAtGen, helpText, start, rootExisted, buildFile, out, prompts,
                   cmakeGen, cmakeCmd, cwdAtCall, mk, status, makeCmd>>


(***************************************************************************)
(* main after getDependencies (lines 121-146) and tryRunningMake (62-86).  *)
(***************************************************************************)
\* lines 129-130 left out: build is entered but never created
DepsReturnedNoMkdir ==
    /\ pc = "depsReturned"
    /\ IF ret = "True"
       THEN /\ out' = out \o << <<"Done loading dependencies.">>, <<"Running CMake.">> >>
            /\ cwdAtGen' = cwd
            /\ cwd' = Resolve(cwd, Split("build"))
            /\ pc' = "cmake"
       ELSE /\ out' = out \o << <<"Failed loading dependencies.">>, Prompt >>
            /\ pc' = "input_depsFailed"
            /\ UNCHANGED <<cwd, cwdAtGen>>
    /\ UNCHANGED <<argv, parsed, helpText, start, rootExisted, fs, buildFile, calls, prompts, exit,
                   cmakeGen, cmakeCmd, ret, cwdAtCall, mk, status, makeCmd>>

\* lines 121-131: the branch on what getDependencies returned, then mkdir/chdir build
DepsReturned ==
    /\ pc = "depsReturned"
    /\ IF ret = "True"
       THEN /\ out' = out \o << <<"Done loading dependencies.">>, <<"Running CMake.">> >>
            /\ fs' = IF ~exists(cwd, "build")
                     THEN fs \cup {Resolve(cwd, Split("build"))} ELSE fs
            /\ cwdAtGen' = cwd
            /\ cwd' = Resolve(cwd, Split("build"))
            /\ pc' = "cmake"
       ELSE /\ out' = out \o << <<"Failed loading dependencies.">>, Prompt >>
            /\ pc' = "input_depsFailed"
            /\ UNCHANGED <<fs, cwd, cwdAtGen>>
    /\ UNCHANGED <<argv, parsed, helpText, start, rootExisted, buildFile, calls, prompts, exit,
                   cmakeGen, cmakeCmd, ret, cwdAtCall, mk, status, makeCmd>>

\* cmake run with its status ignored: main goes on to the build whatever it was
RunCMakeUnchecked ==
    /\ pc = "cmake"
    /\ \E st \in ToolStatuses :
           /\ calls' = Ran(cmakeCmd, FALSE, st)
           /\ fs' = IF st = 0 THEN fs \cup {Resolve(cwd, <<"CMakeCache.txt">>)} ELSE fs
    /\ out' = out \o << <<"Done running CMake.">>, <<"Building Mango.">> >>
    /\ pc' = "probe"
    /\ mk' = 1
    /\ UNCHANGED <<argv, parsed, cwdAtGen, helpText, start, rootExisted, cwd, buildFile, prompts,
                   cmakeGen, cmakeCmd, ret, cwdAtCall, status, makeCmd, exit>>

\* lines 133-143: run cmake in build; on status 0 enter tryRunningMake
RunCMake ==
    /\ pc = "cmake"
    /\ \E st \in ToolStatuses :
           /\ calls' = Ran(cmakeCmd, FALSE, st)
           /\ fs' = IF st = 0 THEN fs \cup {Resolve(cwd, <<"CMakeCache.txt">>)} ELSE fs
           /\ LET r == check_call(st)
              IN  IF r.raised
                  THEN /\ exit' = Uncaught
                       /\ pc' = "done"
                       /\ UNCHANGED <<out, mk>>
                  ELSE IF r.result = 0
                  THEN /\ out' = out \o << <<"Done running CMake.">>, <<"Building Mango.">> >>
                       /\ pc' = "probe"
                       /\ mk' = 1
                       /\ UNCHANGED exit
                  ELSE /\ out' = out \o << <<"Failed running CMake.">>, Prompt >>
                       /\ pc' = "input_cmakeFailed"
                       /\ UNCHANGED <<exit, mk>>
    /\ UNCHANGED <<argv, parsed, cwdAtGen, helpText, start, rootExisted, cwd, buildFile, prompts,
                   cmakeGen, cmakeCmd, ret, cwdAtCall, status, makeCmd>>

\* lines 72-78 without the status test of line 72
AfterLoopNoCheck(st, cmd) ==
    /\ out' = Append(out, <<"Using ", cmd[1], ".">>)
    /\ pc' = "build"

\* lines 72-78, once the loop is left with the given status and command
AfterLoop(st, cmd) ==
    IF st # 0
    THEN /\ out' = out \o << <<"Can not get the available make derivate.">>,
                             <<"Please run your 'make' in the bild directory!">>, Prompt >>
         /\ pc' = "input_noMake"
    ELSE /\ out' = Append(out, <<"Using ", cmd[1], ".">>)
         /\ pc' = "build"

\* the loop without the break of line 70: every candidate is probed
ProbeNoBreak ==
    /\ pc = "probe"
    /\ \E st \in ProbeStatuses :
           /\ makeCmd' = <<makes[mk]>>
           /\ calls' = Ran(<<makes[mk]>>, TRUE, st)
           /\ status' = getstatusoutput(st)
           /\ IF mk < Len(makes)
              THEN /\ mk' = mk + 1
                   /\ UNCHANGED <<pc, out>>
              ELSE /\ AfterLoop(status', makeCmd')
                   /\ UNCHANGED mk
    /\ UNCHANGED <<argv, parsed, cwdAtGen, helpText, start, rootExisted, cwd, fs, buildFile, prompts,
                   exit, cmakeGen, cmakeCmd, ret, cwdAtCall>>

\* lines 64-78: one turn of the loop, makes[mk] run through the shell; the loop goes
\* on after a non-zero status and is left on status 0 or after the last candidate
Probe ==
    /\ pc = "probe"
    /\ \E st \in ProbeStatuses :
           /\ makeCmd' = <<makes[mk]>>
           /\ calls' = Ran(<<makes[mk]>>, TRUE, st)
           /\ status' = getstatusoutput(st)
           /\ IF status' # 0 /\ mk < Len(makes)
              THEN /\ mk' = mk + 1
                   /\ UNCHANGED <<pc, out>>
              ELSE /\ AfterLoop(status', makeCmd')
                   /\ UNCHANGED mk
    /\ UNCHANGED <<argv, parsed, cwdAtGen, helpText, start, rootExisted, cwd, fs, buildFile, prompts,
                   exit, cmakeGen, cmakeCmd, ret, cwdAtCall>>

\* the real build tried again after a failure instead of ending the run
BuildRetries ==
    /\ pc = "build"
    /\ \E st \in BuildStatuses :
           /\ calls' = Ran(makeCmd, FALSE, st)
           /\ IF st = 0
              THEN /\ out' = out \o << <<"Done building Mango.">>, Prompt >>
                   /\ cwd' = Resolve(cwd, Split(".."))
                   /\ pc' = "input_final"
              ELSE UNCHANGED <<out, cwd, pc>>
    /\ UNCHANGED <<argv, parsed, cwdAtGen, helpText, start, rootExisted, fs, buildFile, prompts,
                   cmakeGen, cmakeCmd, ret, cwdAtCall, mk, status, makeCmd, exit>>

\* lines 79-86 and, when tryRunningMake returns, lines 145-146
Build ==
    /\ pc = "build"
    /\ \E st \in BuildStatuses :
           /\ calls' = Ran(makeCmd, FALSE, st)
           /\ LET r == check_call(st)
              IN  IF r.raised
                  THEN /\ exit' = Uncaught
                       /\ pc' = "done"
                       /\ UNCHANGED <<out, cwd>>
                  ELSE IF r.result = 0
                  THEN /\ out' = out \o << <<"Done building Mango.">>, Prompt >>
                       /\ cwd' = Resolve(cwd, Split(".."))
                       /\ pc' = "input_final"
                       /\ UNCHANGED exit
                  ELSE /\ out' = out \o << <<"Failed building Mango.">>, Prompt >>
                       /\ pc' = "input_buildFailed"
                       /\ UNCHANGED <<exit, cwd>>
    /\ UNCHANGED <<argv, parsed, cwdAtGen, helpText, start, rootExisted, fs, buildFile, prompts,
                   cmakeGen, cmakeCmd, ret, cwdAtCall, mk, status, makeCmd>>

InputPcs == {"input_depsFailed", "input_cmakeFailed", "input_noMake", "input_buildFailed",
             "input_final"}

\* the operator answers an input() prompt; what follows is os._exit(1) on the four
\* failure paths (lines 126, 139, 76, 86) and the end of main after line 146
PressEnter ==
    /\ pc \in InputPcs
    /\ prompts' = prompts + 1
    /\ exit' = IF pc = "input_final" THEN Returned ELSE os_exit(1)
    /\ pc' = "done"
    /\ UNCHANGED <<argv, parsed, cwdAtGen, helpText, start, rootExisted, cwd, fs, buildFile, calls,
                   out, cmakeGen, cmakeCmd, ret, cwdAtCall, mk, status, makeCmd>>

Next ==
    \/ Main
    \/ CMakeHelp
    \/ GetDependencies
    \/ CloneGlfw
    \/ CloneGlad
    \/ GladGen
    \/ WriteBuildFile
    \/ CloneGoogletest
    \/ CloneSpdlog
    \/ DepsReturned
    \/ RunCMake
    \/ Probe
    \/ Build
    \/ PressEnter

Spec == Init /\ [][Next]_vars


(***************************************************************************)
(* Vocabulary of the properties: the log of external commands.             *)
(***************************************************************************)
Range(f) == {f[i] : i \in DOMAIN f}

BuildFilePath == Deps \o <<"glad", "CMakeLists.txt">>

\* the provisioning command lines, as a set
ProvisionCmdSet == Range(ProvisionCmds)

\* the command lines of the build tools, as a set
MakeCmdSet == {<<makes[k]>> : k \in 1..Len(makes)}

IsProv(c) == c.cmd \in ProvisionCmdSet
IsCMake(c) == c.cmd[1] = "cmake" /\ c.cmd # cmakeHelp
IsProbe(c) == c.shell
IsBuild(c) == ~c.shell /\ c.cmd \in MakeCmdSet

\* position of a provisioning command in the fixed sequence
ProvIndex(cmd) == CHOOSE n \in 1..Len(ProvisionCmds) : ProvisionCmds[n] = cmd

\* what the n-th provisioning command creates when it succeeds
Produced(n) ==
    CASE n = 1 -> {Deps \o <<"glfw">>}
      [] n = 2 -> {Deps \o <<"glad">>, Deps \o <<"glad", "gen">>}
      [] n = 3 -> {Deps \o <<"glad", "src">>, Deps \o <<"glad", "include">>}
      [] n = 4 -> {Deps \o <<"googletest">>}
      [] n = 5 -> {Deps \o <<"spdlog">>}

\* the paths below (and including) the dependency root
UnderDeps(paths) == {q \in paths : q[1] = "dependencies"}

\* the probes among the calls, in order
Probes == SelectSeq(calls, IsProbe)

Printed(line) == \E i \in 1..Len(out) : out[i] = line

ProvFailed == \E i \in 1..Len(calls) : IsProv(calls[i]) /\ calls[i].status # 0
CMakeFailed == \E i \in 1..Len(calls) : IsCMake(calls[i]) /\ calls[i].status # 0
CMakeOk == \E i \in 1..Len(calls) : IsCMake(calls[i]) /\ calls[i].status = 0
ProbeOk == \E i \in 1..Len(calls) : IsProbe(calls[i]) /\ calls[i].status = 0
BuildOk == \E i \in 1..Len(calls) : IsBuild(calls[i]) /\ calls[i].status = 0
BuildFailed == \E i \in 1..Len(calls) : IsBuild(calls[i]) /\ calls[i].status # 0
Exhausted ==
    LET p == Probes
    IN  Len(p) = Len(makes) /\ \A k \in 1..Len(p) : p[k].status # 0

\* the command line is rejected by the option parser
Malformed == parsed.err
\* the command line carries a help option that the option loop reaches
HelpRun == ~Malformed /\ OptLoop(parsed.opts, "").help

(***************************************************************************)
(* C1: when getDependencies() is called while 'dependencies' exists, it    *)
(* runs no clone and no generation command, writes nothing below the       *)
(* dependency root, leaves the build file as it was and returns True,      *)
(* whatever the directory holds; the first external command of the run is  *)
(* then cmake.                                                             *)
(***************************************************************************)
C1_SkipWhenRootExists ==
    rootExisted = "yes" =>
        /\ ret = "True"
        /\ \A i \in 1..Len(calls) : ~IsProv(calls[i])
        /\ UnderDeps(fs) = UnderDeps(start.fs)
        /\ buildFile = start.buildFile
        /\ cwd = cwdAtCall \/ pc # "depsReturned"
        /\ calls # <<>> => calls[1].cmd = cmakeCmd /\ IsCMake(calls[1])

\* a partially provisioned root was found, skipped, and cmake has run
C1_Witness ==
    /\ rootExisted = "yes"
    /\ UnderDeps(start.fs) = {Deps, Deps \o <<"glfw">>}
    /\ calls # <<>>
    /\ IsCMake(calls[1])

(***************************************************************************)
(* C2: provisioning is fail-fast.  When the N-th command of the fixed      *)
(* sequence ends non-zero, it is the last external command of the run; it  *)
(* was preceded by commands 1..N-1, in order and all successful; the build *)
(* file is not written when N precedes the write; the dependency root and  *)
(* what commands 1..N-1 (and the write, if it came before) created are     *)
(* still there.                                                            *)
(***************************************************************************)
C2_FailFast ==
    \A i \in 1..Len(calls) :
        (IsProv(calls[i]) /\ calls[i].status # 0) =>
            LET n == ProvIndex(calls[i].cmd)
            IN  /\ i = Len(calls)
                /\ i = n
                /\ \A j \in 1..(n - 1) :
                       /\ calls[j].cmd = ProvisionCmds[j]
                       /\ calls[j].status = 0
                       /\ Produced(j) \subseteq fs
                /\ Deps \in fs
                /\ n <= ProvIndex(gladGenCmd) => BuildFilePath \notin fs /\ buildFile = <<>>
                /\ n > ProvIndex(gladGenCmd) =>
                       BuildFilePath \in fs /\ buildFile = CMakeListsContent

\* the googletest clone, fourth in the sequence, has failed and the run is over
C2_Witness ==
    /\ pc = "done"
    /\ \E i \in 1..Len(calls) : calls[i].cmd = GoogletestCmd /\ calls[i].status # 0

(***************************************************************************)
(* C3: once getDependencies() has been left, by return or by an exception, *)
(* the working directory is the one it was called in.                      *)
(***************************************************************************)
C3_CwdRestoredOnEveryExit ==
    (pc = "depsReturned" \/ ret = "raised") => cwd = cwdAtCall

(***************************************************************************)
(* C4: the probes follow the order make, nmake, mingw32-make, ninja; every *)
(* probe but the last one failed, so nothing is probed after a success and *)
(* nothing is probed before all candidates ahead of it failed; the         *)
(* candidate selected for the build is the one whose probe succeeded.      *)
(***************************************************************************)
C4_CascadeOrder ==
    LET p == Probes
    IN  /\ Len(p) <= Len(makes)
        /\ \A k \in 1..Len(p) :
               /\ p[k].cmd = <<makes[k]>>
               /\ k < Len(p) => p[k].status # 0
               /\ p[k].status = 0 => pc # "probe" /\ makeCmd = <<makes[k]>>
        /\ pc = "build" => p # <<>> /\ p[Len(p)].status = 0

\* make and nmake failed their probe, mingw32-make succeeded and is about to build
C4_Witness ==
    /\ pc = "build"
    /\ Len(Probes) = 3
    /\ Probes[1].status # 0
    /\ Probes[2].status # 0

(***************************************************************************)
(* C5: when all four candidates failed their probe, the script prints the  *)
(* tool-not-found diagnostic and the prompt, never runs a build, and ends  *)
(* only after the prompt was answered, with a non-zero exit status.        *)
(***************************************************************************)
C5_ExhaustedIsFatal ==
    Exhausted =>
        /\ \A i \in 1..Len(calls) : ~IsBuild(calls[i])
        /\ Len(out) >= 3
        /\ SubSeq(out, Len(out) - 2, Len(out)) =
               << <<"Can not get the available make derivate.">>,
                  <<"Please run your 'make' in the bild directory!">>, Prompt >>
        /\ pc \in {"input_noMake", "done"}
        /\ pc = "done" => prompts = 1 /\ exit.code # 0 /\ exit.how = "os._exit"

C5_Witness == Exhausted /\ pc = "done"

(***************************************************************************)
(* C6: control flow is linear.  cmake runs only after getDependencies      *)
(* returned True, preceded either by no command (skip) or by the five      *)
(* provisioning commands, all successful; a probe or a build runs only     *)
(* after a cmake call that ended with status 0; a failed provisioning      *)
(* command or a failed cmake is the last external command of the run.      *)
(***************************************************************************)
C6_LinearFlow ==
    LET generated == {j \in 1..Len(calls) : IsCMake(calls[j]) /\ calls[j].status = 0}
    IN  \A i \in 1..Len(calls) :
            /\ IsCMake(calls[i]) =>
                   /\ ret = "True"
                   /\ i - 1 \in {0, Len(ProvisionCmds)}
                   /\ \A j \in 1..(i - 1) :
                          calls[j].cmd = ProvisionCmds[j] /\ calls[j].status = 0
            /\ (IsProbe(calls[i]) \/ IsBuild(calls[i])) =>
                   \E j \in generated : j < i
            /\ ((IsProv(calls[i]) \/ IsCMake(calls[i])) /\ calls[i].status # 0) =>
                   i = Len(calls)

\* a run that provisioned, generated, probed and built
C6_Witness ==
    /\ rootExisted = "no"
    /\ pc = "input_final"
    /\ BuildOk

(***************************************************************************)
(* C7.  AllSucceeded: provisioning returned True, cmake ended 0, a probe   *)
(* ended 0 and the real build ended 0.                                     *)
(***************************************************************************)
AllSucceeded == ret = "True" /\ CMakeOk /\ ProbeOk /\ BuildOk

C8_ProvisionFailureReported ==
    ProvFailed =>
        /\ ret = "False"
        /\ pc \in {"depsReturned", "input_depsFailed", "done"}
        /\ pc \in {"input_depsFailed", "done"} =>
               /\ Printed(<<"Failed loading dependencies.">>)
               /\ out[Len(out)] = Prompt
        /\ pc = "done" => prompts = 1 /\ exit.how = "os._exit"

(***************************************************************************)
(* C9: when cmake ends non-zero, main prints 'Failed running CMake.' and   *)
(* the prompt and ends only after the prompt was answered; when cmake ends *)
(* with zero, main goes on to the compile step.                            *)
(***************************************************************************)
C9_CMakeFailureReported ==
    /\ CMakeFailed =>
           /\ Printed(<<"Failed running CMake.">>)
           /\ out[Len(out)] = Prompt
           /\ pc \in {"input_cmakeFailed", "done"}
           /\ pc = "done" => prompts = 1 /\ exit.how = "os._exit"
    /\ CMakeOk =>
           /\ Printed(<<"Done running CMake.">>)
           /\ Printed(<<"Building Mango.">>)
           /\ pc = "probe" \/ Probes # <<>>

(***************************************************************************)
(* C10: a malformed command line is fatal at entry.  Once main has looked  *)
(* at it, the process is over with exit status 1, has printed exactly the  *)
(* two usage lines, has created nothing, has not changed the working       *)
(* directory and has run no external command.                              *)
(***************************************************************************)
\* command lines known to be rejected by getopt with 'hG:' / help, cmake_generator=
KnownMalformed ==
    {<<"-x">>, <<"-G">>, <<"--cmake_generator">>, <<"--help=Ninja">>, <<"-hG">>,
     <<"-h", "-x">>, <<"--cmake_generator=Ninja", "-x">>, <<"-Gx", "-G">>}

C10_MalformedFatalAtEntry ==
    ((Malformed \/ argv \in KnownMalformed) /\ pc # "main") =>
        /\ pc = "done"
        /\ exit = os_exit(1)
        /\ out = << <<"get help with: create_solution.py -h">>, Usage >>
        /\ fs = start.fs
        /\ buildFile = start.buildFile
        /\ cwd = <<>>
        /\ calls = <<>>
        /\ prompts = 0

\* a well-formed generator option followed by an unknown one
C10_Witness ==
    /\ argv = <<"--cmake_generator=Ninja", "-x">>
    /\ pc = "done"


(***************************************************************************)
(* C11: a candidate whose executable was found and ran (any probe status   *)
(* but 127, command not found) is the one selected, whatever came of the   *)
(* build it performed: the cascade moves on only past absent candidates,   *)
(* and the tool-not-found diagnostic is printed only when no candidate     *)
(* was present.                                                            *)
(***************************************************************************)
NotFound == 127

C11_PresentToolSelected ==
    /\ \A k \in 1..Len(Probes) :
           Probes[k].status # NotFound =>
               /\ k = Len(Probes)
               /\ pc # "probe"
               /\ makeCmd = Probes[k].cmd
               /\ ~Printed(<<"Can not get the available make derivate.">>)
    /\ Printed(<<"Can not get the available make derivate.">>) =>
           \A k \in 1..Len(Probes) : Probes[k].status = NotFound

(***************************************************************************)
(* C12: once the build driver is left (the process is over, or main is at  *)
(* its last prompt) after the generator step began, the working directory  *)
(* is the one the generator step began in.                                 *)
(***************************************************************************)
GenStepBegan == pc \in {"cmake", "probe", "build", "input_cmakeFailed", "input_noMake",
                        "input_buildFailed", "input_final"}
                    \/ \E i \in 1..Len(calls) : IsCMake(calls[i])

C12_CwdRestoredAfterBuildDriver ==
    (GenStepBegan /\ pc \in {"done", "input_final"}) => cwd = cwdAtGen

(***************************************************************************)
(* C13.  ProvisionedFully: all five provisioning commands ran, in order,   *)
(* each with status 0, and the build file holds the fixed content.         *)
(***************************************************************************)
ProvisionedFully ==
    /\ Len(calls) >= Len(ProvisionCmds)
    /\ \A j \in 1..Len(ProvisionCmds) :
           calls[j].cmd = ProvisionCmds[j] /\ calls[j].status = 0
    /\ BuildFilePath \in fs
    /\ buildFile = CMakeListsContent

\* C13 as stated: from a workspace without 'dependencies', if the directory exists
\* when the run is over then the run provisioned fully; and a run that finds the
\* directory changes nothing below it
C13_RootMarksCompletion ==
    /\ (Deps \notin start.fs /\ pc = "done" /\ Deps \in fs) => ProvisionedFully
    /\ rootExisted = "yes" =>
           UnderDeps(fs) = UnderDeps(start.fs) /\ buildFile = start.buildFile

\* C13, amended: the directory is created when a provisioning run begins and stays
\* whether the run succeeds or not; it marks a completed provisioning only when
\* getDependencies returned True in that run; a run that finds the directory
\* changes nothing below it
C13_RootMarksStartedRun ==
    /\ rootExisted = "no" => Deps \in fs
    /\ (rootExisted = "no" /\ ret = "True") => ProvisionedFully
    /\ (rootExisted = "no" /\ ProvisionedFully) => ret = "True"
    /\ rootExisted = "yes" =>
           UnderDeps(fs) = UnderDeps(start.fs) /\ buildFile = start.buildFile

\* a run that created the directory and then failed at the glad generator
C13_Witness ==
    /\ rootExisted = "no"
    /\ pc = "done"
    /\ Deps \in fs
    /\ \E i \in 1..Len(calls) : calls[i].cmd = gladGenCmd /\ calls[i].status # 0


(***************************************************************************)
(* C14: end to end.  From an empty workspace, when the five provisioning   *)
(* commands, cmake, the probe of the first candidate and the real build    *)
(* all end with status 0, the process ends with exit status 0, the         *)
(* dependency root with all it holds and the build directory exist, and    *)
(* the build file is there with the fixed three lines.                     *)
(***************************************************************************)
ExpectedBuildFile ==
    <<"project(glad)\r\n",
      "add_library(glad src/glad.c include/glad/glad.h include/KHR/khrplatform.h)\r\n",
      "target_include_directories(glad PUBLIC include)\r\n">>

EndToEndRun ==
    /\ start.fs = {}
    /\ pc = "done"
    /\ Len(calls) = Len(ProvisionCmds) + 3
    /\ \A i \in 1..Len(calls) : calls[i].status = 0
    /\ \A j \in 1..Len(ProvisionCmds) : calls[j].cmd = ProvisionCmds[j]
    /\ IsCMake(calls[Len(ProvisionCmds) + 1])
    /\ IsProbe(calls[Len(ProvisionCmds) + 2])
    /\ calls[Len(ProvisionCmds) + 2].cmd = <<makes[1]>>
    /\ IsBuild(calls[Len(ProvisionCmds) + 3])

C14_EndToEndSuccess ==
    EndToEndRun =>
        /\ exit.code = 0
        /\ exit.how = "return"
        /\ FullDeps \subseteq fs
        /\ <<"build">> \in fs
        /\ BuildFilePath \in fs
        /\ buildFile = ExpectedBuildFile
        /\ cwd = <<>>

C14_Witness == EndToEndRun /\ argv = <<"-G", "Ninja">>

(***************************************************************************)
(* C15: the build file is written only after the glad clone and the glad   *)
(* generator both ended with status 0, never while or before they run and  *)
(* never when one of them failed; a run that provisions successfully       *)
(* leaves it with exactly the three fixed lines, and a later run, which    *)
(* skips provisioning, leaves it as it found it.                           *)
(***************************************************************************)
BuildFileTouched == buildFile # start.buildFile \/ BuildFilePath \in fs \ start.fs

IsGenOpt(o) == o.opt \in {"-G", "--cmake_generator"}
GenOpts == SelectSeq(parsed.opts, IsGenOpt)
DefaultWarning == <<"The platform default cmake generator is used. This may fail.">>

\* C16 as stated: cmake is run with the value of every generator option passed as
\* '-G value', the empty value included; without such an option it is run as
\* 'cmake ..' and the warning is printed
C16_GeneratorForwarded ==
    \A i \in 1..Len(calls) :
        IsCMake(calls[i]) =>
            /\ \A k \in 1..Len(GenOpts) :
                   calls[i].cmd = <<"cmake", "-G", GenOpts[k].arg, "..">>
            /\ GenOpts = <<>> =>
                   calls[i].cmd = <<"cmake", "..">> /\ Printed(DefaultWarning)

\* C16, amended: cmake is run with the value of the last generator option passed
\* verbatim as '-G value' when that value is not empty; when there is no generator
\* option, or the last one carries the empty string, it is run as 'cmake ..' and
\* the warning is printed
C16_LastNonEmptyGeneratorForwarded ==
    \A i \in 1..Len(calls) :
        IsCMake(calls[i]) =>
            LET g == GenOpts
                v == IF g = <<>> THEN "" ELSE g[Len(g)].arg
            IN  IF v = ""
                THEN /\ calls[i].cmd = <<"cmake", "..">>
                     /\ Printed(DefaultWarning)
                     /\ \A j \in 1..Len(out) :
                            out[j] = <<>> \/ out[j][1] # "The generator for cmake is "
                ELSE /\ calls[i].cmd = <<"cmake", "-G", v, "..">>
                     /\ Printed(<<"The generator for cmake is ", v>>)
                     /\ ~Printed(DefaultWarning)

\* two generator options with different values: cmake has run with the second
C16_Witness ==
    /\ argv = <<"--cmake_generator=Ninja", "-Gx">>
    /\ \E i \in 1..Len(calls) : IsCMake(calls[i])


(***************************************************************************)
(* C17.  The listing expected for each help text: the rows after the first *)
(* 'Generators', in order, without the rows that contain 'option' in any   *)
(* case, and with '[arch]' replaced by six blanks.                         *)
(***************************************************************************)
HelpGiven ==
    /\ ~Malformed
    /\ \E k \in 1..Len(parsed.opts) : parsed.opts[k].opt \in {"-h", "--help"}

HasMarker(text) == \E i \in 1..Len(text) : text[i] = "Generators"

ExpectedListing(text) ==
    CASE text = <<"Options", "\n", "Generators", "\n", "Ninja", "\n", "Visual Studio 16 ",
                  "[arch]", "\n", "  Optional ", "[arch]", " may be Win64", "\n", "Xcode">>
             -> << <<>>, <<"Ninja">>, <<"Visual Studio 16 ", "      ">>, <<"Xcode">> >>
      [] text = <<"Generators", " are:", "\n", "Xcode", "\n", "Generators", "\n", "OPTION">>
             -> << <<" are:">>, <<"Xcode">>, <<"Generators">> >>

\* what holds of every help run: nothing but cmake -h is run, nothing is created
HelpRunTouchesNothing ==
    /\ Len(calls) = 1
    /\ calls[1].cmd = <<"cmake", "-h">>
    /\ fs = start.fs
    /\ buildFile = start.buildFile
    /\ cwd = <<>>
    /\ prompts = 0

\* C17 as stated: a help option among well-formed options always ends in the usage
\* line, the filtered generator list and exit status 0, with nothing provisioned,
\* created or built
C17_HelpListsGenerators ==
    (HelpGiven /\ pc = "done") =>
        /\ HelpRunTouchesNothing
        /\ exit = [how |-> "os._exit", code |-> 0]
        /\ HasMarker(helpText)
        /\ out = <<Usage>> \o ExpectedListing(helpText)

\* C17, amended: as stated when cmake -h ends with status 0 and its output holds
\* the 'Generators' marker; otherwise the run prints the usage line only and ends
\* with a non-zero status; either way nothing is provisioned, created or built
C17_HelpListsGeneratorsWhenAvailable ==
    /\ (HelpGiven /\ pc # "main") => pc \in {"cmakeHelp", "done"}
    /\ (HelpGiven /\ pc = "done") =>
           /\ HelpRunTouchesNothing
           /\ IF calls[1].status = 0 /\ HasMarker(helpText)
              THEN /\ exit = [how |-> "os._exit", code |-> 0]
                   /\ out = <<Usage>> \o ExpectedListing(helpText)
              ELSE /\ exit.code # 0
                   /\ out = <<Usage>>

\* a help option after a generator option, and the listing with a blanked [arch]
C17_Witness ==
    /\ argv = <<"-Gx", "--he">>
    /\ pc = "done"
    /\ exit.code = 0
    /\ Len(out) = 5


(***************************************************************************)
(* C18: the real build runs the candidate whose probe succeeded, right     *)
(* after that probe and without arguments; status 0 is reported as 'Done   *)
(* building Mango.' and the run goes on to its normal end; a non-zero      *)
(* status is reported as 'Failed building Mango.' and the prompt, and the  *)
(* process ends non-zero once the prompt was answered.                     *)
(***************************************************************************)
C18_BuildUsesSelectedTool ==
    \A i \in 1..Len(calls) :
        IsBuild(calls[i]) =>
            /\ i > 1
            /\ IsProbe(calls[i - 1])
            /\ calls[i - 1].status = 0
            /\ calls[i].cmd = calls[i - 1].cmd
            /\ Len(calls[i].cmd) = 1
            /\ calls[i].status = 0 =>
                   /\ Printed(<<"Done building Mango.">>)
                   /\ pc \in {"input_final", "done"}
                   /\ pc = "done" => exit.code = 0
            /\ calls[i].status # 0 =>
                   /\ Printed(<<"Failed building Mango.">>)
                   /\ out[Len(out)] = Prompt
                   /\ pc \in {"input_buildFailed", "done"}
                   /\ pc = "done" => prompts = 1 /\ exit.code # 0

(***************************************************************************)
(* C19: in a run that finds no 'dependencies', the directory is created,   *)
(* then the provisioning commands run in the fixed order, each at most     *)
(* once and each only after the one before it ended with status 0: the     *)
(* clones in dependencies, the glad generator in dependencies/glad/gen;    *)
(* the build file is written after the generator ended 0 and before the    *)
(* googletest clone.                                                       *)
(***************************************************************************)
ProvCalls == SelectSeq(calls, IsProv)

C19_ProvisioningOrder ==
    rootExisted = "no" =>
        /\ Deps \in fs
        /\ LET p == ProvCalls
           IN  /\ Len(p) <= Len(ProvisionCmds)
               /\ \A j \in 1..Len(p) :
                      /\ calls[j] = p[j]
                      /\ calls[j].cmd = ProvisionCmds[j]
                      /\ j > 1 => calls[j - 1].status = 0
                      /\ calls[j].cwd = IF calls[j].cmd = gladGenCmd
                                        THEN Deps \o <<"glad", "gen">> ELSE Deps
        /\ BuildFileTouched <=>
               /\ Len(calls) >= ProvIndex(gladGenCmd)
               /\ calls[ProvIndex(gladGenCmd)].status = 0
               /\ pc # "write"
        /\ Len(calls) >= ProvIndex(GoogletestCmd) => BuildFileTouched

\* all five commands have run and getDependencies has returned
C19_Witness ==
    /\ rootExisted = "no"
    /\ pc = "depsReturned"
    /\ Len(ProvCalls) = Len(ProvisionCmds)

(***************************************************************************)
(* C20: no command line is run twice, except that the selected build tool  *)
(* is run once as the probe and, right after it, once as the real build,   *)
(* with the same argument-free command line; a run in which everything     *)
(* succeeds therefore runs the build tool exactly twice.                   *)
(***************************************************************************)
C20_NoRetry ==
    /\ \A j \in 1..Len(calls) : \A i \in 1..(j - 1) :
           calls[i].cmd = calls[j].cmd =>
               /\ j = i + 1
               /\ IsProbe(calls[i])
               /\ calls[i].status = 0
               /\ IsBuild(calls[j])
               /\ calls[j].cmd = makeCmd
               /\ Len(calls[j].cmd) = 1
    /\ AllSucceeded => Cardinality({i \in 1..Len(calls) : calls[i].cmd = makeCmd}) = 2

\* the last candidate was selected and has been run twice
C20_Witness ==
    /\ pc = "input_final"
    /\ Cardinality({i \in 1..Len(calls) : calls[i].cmd = <<"ninja">>}) = 2

====
